---- MODULE Spec2Model ----
(***************************************************************************)
(* Live call queue of the pharmacist backend (src/server.js): the call     *)
(* store (Firestore collection pharmacist_call_requests), the queue        *)
(* rebalancer, the admission handler POST /twilio/start-call and the two   *)
(* status handlers POST /twilio/calls/:id/status (user) and                *)
(* POST /pharmacist/api/calls/:id/status (staff console).                  *)
(* Also the presence routes (heartbeat and presence read) and the staff    *)
(* console page (src/public/pharmacist.js): its telephony leg, the status  *)
(* notifications the leg's events send, and the Call back, Mute and Hold   *)
(* buttons.                                                                *)
(*                                                                         *)
(* Every handler is an async function: each awaited store round trip is    *)
(* one atomic step, and the synchronous code that follows it up to the     *)
(* next await (or to the response) belongs to the same step.               *)
(***************************************************************************)
EXTENDS Integers, Sequences, FiniteSets, TLC

----------------------------------------------------------------------------
(* Bounds *)

MaxUsers == 2       \* users of Spec and SpecSeq
MaxCalls == 3       \* documents the call collection can hold
MaxSlots == 3       \* requests the server can have in flight
MaxReqs == 2        \* requests in flight in Spec
MaxRequests == 4    \* requests served in one behaviour of Spec and SpecSeq
MaxNow == 3         \* last tick of the store's clock
TicksPerMilli == 2  \* clock ticks per millisecond
\* The wall clock counts steps of MillisPerStep milliseconds, up to MaxClock.
MillisPerStep == 5000
MaxClock == 12
\* Telephony legs the staff console handles in SpecConsole.
MaxLegs == 1
\* Requests served in one behaviour of SpecLive.
MaxLiveRequests == 6
\* Telephony legs, and presses of the Mute and Hold buttons, in SpecDesk.
MaxDeskLegs == 3
MaxPresses == 3
\* Consecutive runs of rebalanceCallQueue, and the largest queuePosition a
\* record holds before them, in SpecRebalance.
MaxRuns == 2
MaxAnyPosition == 2

Users == 1..MaxUsers
Ids == 1..MaxCalls
Slots == 1..MaxSlots
Reqs == 1..MaxReqs

----------------------------------------------------------------------------
(* Program constants *)

\* JavaScript null (or a missing field) in a document or a response.
Null == 0

\* The presence read reports online within this many milliseconds of the last
\* heartbeat, and estimates this many minutes of wait per call ahead.
PresenceWindowMillis == 45000
MinutesPerCall == 6

\* The length limits of the handoff texts stored by start-call.
MaxUserMessage == 500
MaxSummarizedLogs == 4000

\* A handoff holds its two texts by their lengths and the range marker (Null
\* without one). NoHandoff is the handoff of a request body without one.
NoHandoff == [userMessage |-> 0, summarizedLogs |-> 0, attachedRange |-> Null]

\* The value of an id without a document.
NoDoc == [id |-> 0, userId |-> 0, identity |-> <<>>, handoff |-> NoHandoff,
          status |-> "none", queuePosition |-> 0,
          createdAt |-> 0, updatedAt |-> 0, startedAt |-> 0, endedAt |-> 0]

ACTIVE_CALL_STATUSES == {"requested", "queued", "ringing", "in_progress"}
TERMINAL_CALL_STATUSES == {"completed", "failed", "cancelled", "missed"}
USER_UPDATABLE_CALL_STATUSES_Mutant ==
  {"queued", "ringing", "in_progress", "completed", "failed", "cancelled", "missed"}

USER_UPDATABLE_CALL_STATUSES ==
  {"ringing", "in_progress", "completed", "failed", "cancelled", "missed"}

\* Status strings a client may put in the request body ("" is a missing or
\* empty status, "no_answer" a string that is none of the eight statuses).
StatusInputs ==
  ACTIVE_CALL_STATUSES \cup TERMINAL_CALL_STATUSES \cup {"", "no_answer"}

----------------------------------------------------------------------------
VARIABLES
  calls,   \* the call collection: document id -> document data, or NoDoc
  now,     \* the store's clock, in ticks (TicksPerMilli ticks per millisecond)
  pc,      \* per request slot: the await the handler is suspended at
  arg,     \* per request slot: the request (operation, caller, :id, body)
  loc,     \* per request slot: the handler's local variables
  resp,    \* per request slot: the response sent
  served,  \* number of requests the server has accepted so far
  presence, \* updatedAt of the presence document "console" in clock steps,
            \* Null without a document
  clock,   \* the wall clock, in steps of MillisPerStep milliseconds
  console  \* the staff console page: its telephony leg and the status
           \* notifications it has sent that have not reached the server

vars == <<calls, now, pc, arg, loc, resp, served, presence, clock, console>>

\* The variables of the presence routes and of the staff console page.
pvars == <<presence, clock, console>>

\* leg is the state of the console's telephony leg ("none", "dialling",
\* "pending" once wired, "accepted", "errored", "ended"), requestId and
\* wasConnected its callMeta entry, event the last event handled, posts the
\* notifications in flight, legs the number of legs so far.  dials holds the
\* request ids of the startCallbackCall invocations waiting at device.connect;
\* isMuted and isOnHold are the fields of the page's state, canMute tells
\* whether the Mute and Hold buttons are enabled, audioMuted whether the
\* call's audio is muted, presses counts the presses of the two buttons.
NoConsole == [leg |-> "none", direction |-> "none", requestId |-> 0,
              wasConnected |-> FALSE, event |-> "none", posts |-> <<>>,
              legs |-> 0, dials |-> <<>>, isMuted |-> FALSE,
              isOnHold |-> FALSE, canMute |-> FALSE, audioMuted |-> FALSE,
              presses |-> 0]

\* cred is the request's bearer credential ("valid", "missing" or "invalid");
\* twilio tells whether isTwilioConfigured() holds for the request.
NoArg == [op |-> "none", user |-> 0, id |-> 0, status |-> "",
          cred |-> "none", twilio |-> TRUE, handoff |-> NoHandoff]
\* prior, wrote and err are history fields: the queuePosition the target
\* record held when the handler's status write was applied, whether a write of
\* the handler (set, update or batch commit) has been applied to the store,
\* and the kind of store error the handler's catch block has caught.
\* online is the presence read's local; beat and readAt are history fields:
\* the presence document's updatedAt and the wall clock at that read.
NoLoc == [callRef |-> 0, queuePosition |-> 0, startedAt |-> 0,
          batch |-> <<>>, ret |-> "none", prior |-> 0, wrote |-> FALSE,
          err |-> "none", online |-> FALSE, beat |-> 0, readAt |-> 0]
\* presence holds the fields of a presence response (NoPresence in the
\* responses of the other routes).
NoPresence == [online |-> FALSE, activeCalls |-> 0, estimatedWaitMinutes |-> 0]
NoResp == [code |-> 0, queued |-> FALSE, requestId |-> 0,
           queuePosition |-> 0, token |-> <<>>, degraded |-> FALSE,
           presence |-> NoPresence]

Exists(c, id) == id \in Ids /\ c[id].userId # 0
IsActive(c, id) == Exists(c, id) /\ c[id].status \in ACTIVE_CALL_STATUSES
IsTerminal(c, id) == Exists(c, id) /\ c[id].status \in TERMINAL_CALL_STATUSES

----------------------------------------------------------------------------
(* Pure helpers *)

Max(a, b) == IF a >= b THEN a ELSE b

\* sanitizeIdentity(`user_${uid}`): the telephony identity of a user.
IdentityOf(u) == <<"user", u>>

\* createTwilioVoiceToken(identity): a grant scoped to that identity.
NoToken == <<>>
createTwilioVoiceToken(identity) == <<"jwt", identity>>

\* callCreatedAtMillis(doc): createdAt.toMillis(), or 0 without a createdAt.
callCreatedAtMillis(d) ==
  IF d.createdAt # Null THEN d.createdAt \div TicksPerMilli ELSE 0

\* The query `where status in ACTIVE_CALL_STATUSES`: the matching documents.
ActiveIds(c) == {id \in Ids : IsActive(c, id)}

\* Array.prototype.sort by callCreatedAtMillis is stable: documents with the
\* same millisecond keep the order of snapshot.docs, which is document-id order.
SortsBefore(c, i, j) ==
  \/ callCreatedAtMillis(c[i]) < callCreatedAtMillis(c[j])
  \/ callCreatedAtMillis(c[i]) = callCreatedAtMillis(c[j]) /\ i < j

RankOf(c, id) == Cardinality({j \in ActiveIds(c) : SortsBefore(c, j, id)}) + 1

listActiveCalls(c) ==
  [k \in 1..Cardinality(ActiveIds(c)) |->
     CHOOSE id \in ActiveIds(c) : RankOf(c, id) = k]

\* RebalanceUpdate without the test data.queuePosition !== queuePosition.
RebalanceUpdate_Mutant(c, docs, k) ==
  [id |-> docs[k],
   setPosition |-> TRUE,
   queuePosition |-> k,
   setStatus |-> (k = 1 /\ c[docs[k]].status = "queued")]

\* The body of docs.forEach in rebalanceCallQueue: the update computed for the
\* document at 1-based index k of docs.
RebalanceUpdate(c, docs, k) ==
  [id |-> docs[k],
   setPosition |-> c[docs[k]].queuePosition # k,
   queuePosition |-> k,
   setStatus |-> (k = 1 /\ c[docs[k]].status = "queued")]

HasKeys(u) == u.setPosition \/ u.setStatus

\* The write batch rebalanceCallQueue builds from one read of the store.
RebalanceBatch(c) ==
  LET docs == listActiveCalls(c)
      all == [k \in 1..Len(docs) |-> RebalanceUpdate(c, docs, k)]
  IN SelectSeq(all, HasKeys)

\* CommitBatch as a sequence of separate writes of which only the first is
\* applied.
CommitBatch_Mutant(c, b, t) ==
  [id \in Ids |->
     IF b # <<>> /\ b[1].id = id
     THEN [c[id] EXCEPT
             !.queuePosition = IF b[1].setPosition THEN b[1].queuePosition ELSE @,
             !.status = IF b[1].setStatus THEN "requested" ELSE @,
             !.updatedAt = t]
     ELSE c[id]]

\* batch.commit(): all updates of the batch applied in one atomic write.
CommitBatch(c, b, t) ==
  [id \in Ids |->
     IF \E k \in 1..Len(b) : b[k].id = id
     THEN LET u == b[CHOOSE k \in 1..Len(b) : b[k].id = id]
          IN [c[id] EXCEPT
                !.queuePosition = IF u.setPosition THEN u.queuePosition ELSE @,
                !.status = IF u.setStatus THEN "requested" ELSE @,
                !.updatedAt = t]
     ELSE c[id]]

Min(a, b) == IF a <= b THEN a ELSE b

\* The handoff start-call stores: String(text || "").slice(0, limit) for the
\* two texts, attachedRange || null for the marker.
StoredHandoff(h) ==
  [userMessage |-> Min(h.userMessage, MaxUserMessage),
   summarizedLogs |-> Min(h.summarizedLogs, MaxSummarizedLogs),
   attachedRange |-> h.attachedRange]

\* The document written by callRef.set in start-call.
NewCall(id, u, h, initialStatus, queuePosition, t) ==
  [id |-> id, userId |-> u, identity |-> IdentityOf(u),
   handoff |-> StoredHandoff(h), status |-> initialStatus,
   queuePosition |-> queuePosition, createdAt |-> t, updatedAt |-> t,
   startedAt |-> Null, endedAt |-> Null]

\* The update object of POST /twilio/calls/:id/status applied to a document;
\* started is current.startedAt as read before the write.
UserStatusWrite(d, status, started, t) ==
  [d EXCEPT
     !.status = status,
     !.updatedAt = t,
     !.startedAt = IF status = "in_progress"
                   THEN (IF started # Null THEN started ELSE t) ELSE @,
     !.queuePosition = IF status \in TERMINAL_CALL_STATUSES THEN Null
                       ELSE IF status = "in_progress" THEN 1 ELSE @,
     !.endedAt = IF status \in TERMINAL_CALL_STATUSES THEN t ELSE @]

\* StaffStatusWrite with set() in place of update(): the document is replaced
\* by the update object.
StaffStatusWrite_Mutant(d, status, t) ==
  [NoDoc EXCEPT
     !.status = status,
     !.updatedAt = t,
     !.startedAt = IF status = "in_progress" THEN t ELSE @]

\* The update object of POST /pharmacist/api/calls/:id/status.
StaffStatusWrite(d, status, t) ==
  [d EXCEPT
     !.status = status,
     !.updatedAt = t,
     !.startedAt = IF status = "in_progress" THEN t ELSE @,
     !.queuePosition = IF status \in TERMINAL_CALL_STATUSES THEN Null ELSE @,
     !.endedAt = IF status \in TERMINAL_CALL_STATUSES THEN t ELSE @]

\* ExistingCall with the lookup comparing the document id with the caller's uid.
ExistingCall_Mutant(c, u) ==
  LET docs == listActiveCalls(c)
      hits == {k \in 1..Len(docs) : docs[k] = u}
  IN IF hits = {} THEN 0
     ELSE docs[CHOOSE k \in hits : \A m \in hits : k <= m]

\* The first active document of the caller in activeCalls (Array.find), or 0.
ExistingCall(c, u) ==
  LET docs == listActiveCalls(c)
      hits == {k \in 1..Len(docs) : c[docs[k]].userId = u}
  IN IF hits = {} THEN 0
     ELSE docs[CHOOSE k \in hits : \A m \in hits : k <= m]

\* existingCall.data().queuePosition || Math.max(1, findIndex + 1)
ExistingPosition(c, id) ==
  IF c[id].queuePosition # Null THEN c[id].queuePosition
  ELSE Max(1, RankOf(c, id))

\* StartCallResponse with the queue test off by one.
StartCallResponse_Mutant(u, requestId, queuePosition) ==
  IF queuePosition > 2
  THEN [code |-> 200, queued |-> TRUE, requestId |-> requestId,
        queuePosition |-> queuePosition, token |-> NoToken,
        degraded |-> FALSE, presence |-> NoPresence]
  ELSE [code |-> 200, queued |-> FALSE, requestId |-> requestId,
        queuePosition |-> 1, token |-> createTwilioVoiceToken(IdentityOf(u)),
        degraded |-> FALSE, presence |-> NoPresence]

\* The two success responses of start-call (lines 676-694).
StartCallResponse(u, requestId, queuePosition) ==
  IF queuePosition > 1
  THEN [code |-> 200, queued |-> TRUE, requestId |-> requestId,
        queuePosition |-> queuePosition, token |-> NoToken,
        degraded |-> FALSE, presence |-> NoPresence]
  ELSE [code |-> 200, queued |-> FALSE, requestId |-> requestId,
        queuePosition |-> 1, token |-> createTwilioVoiceToken(IdentityOf(u)),
        degraded |-> FALSE, presence |-> NoPresence]

StatusResponse(code) ==
  [code |-> code, queued |-> FALSE, requestId |-> 0, queuePosition |-> 0,
   token |-> NoToken, degraded |-> FALSE, presence |-> NoPresence]

\* Bearer credentials a request may carry, and the ways an awaited store
\* operation may reject: with a quota error (RESOURCE_EXHAUSTED, recognised by
\* isFirestoreQuotaExceeded) or with any other error.
Credentials == {"valid", "missing", "invalid"}
StoreErrors == {"quota", "other"}

\* The status answered when verifyFirebaseUserFromRequest throws: a missing
\* token throws with statusCode 401 (lines 295-298); verifyIdToken rejects an
\* invalid token with an error that carries no statusCode, and the handlers'
\* catch answers err?.statusCode || 500.
VerifyFailureCode(cred) == IF cred = "missing" THEN 401 ELSE 500

\* buildDirectTwilioCallPayload(user): the degraded direct-connect response.
buildDirectTwilioCallPayload(u) ==
  [code |-> 200, queued |-> FALSE, requestId |-> Null, queuePosition |-> 1,
   token |-> createTwilioVoiceToken(IdentityOf(u)), degraded |-> TRUE, presence |-> NoPresence]

\* StartCallCatch without the degraded direct-connect branch.
StartCallCatch_Mutant(a, kind) ==
  IF kind = "quota" THEN StatusResponse(429) ELSE StatusResponse(500)

\* The catch block of start-call (lines 695-717) for a store error of the
\* given kind; a is the request.
StartCallCatch(a, kind) ==
  IF kind = "quota"
  THEN IF a.cred = "valid" /\ a.twilio
       THEN buildDirectTwilioCallPayload(a.user)
       ELSE StatusResponse(429)
  ELSE StatusResponse(500)

\* The catch blocks of the status handlers and of the call read (lines
\* 560-562, 756-759, 776-779): a store error carries no statusCode, whatever
\* its kind.
StatusCatch(kind) == StatusResponse(500)

----------------------------------------------------------------------------
(* Initial state and handler steps *)

Init ==
  /\ calls = [id \in Ids |-> NoDoc]
  /\ now = 1
  /\ pc = [r \in Slots |-> "idle"]
  /\ arg = [r \in Slots |-> NoArg]
  /\ loc = [r \in Slots |-> NoLoc]
  /\ resp = [r \in Slots |-> NoResp]
  /\ served = 0
  /\ presence = Null
  /\ clock = 1
  /\ console = NoConsole

\* Store states rebalanceCallQueue may be run from: each id has no document,
\* or a document with any of these statuses, positions (Null is a null or
\* missing queuePosition) and creation times.
AnyStatuses == {"queued", "requested", "completed"}
AnyPositions == {Null} \cup (1..MaxAnyPosition)
AnyCreatedAt == 1..MaxNow
AnyShapes ==
  {<<>>} \cup (AnyStatuses \X AnyPositions \X AnyCreatedAt)

\* The document of the given id with shape <<status, queuePosition, createdAt>>,
\* or no document for the empty shape.
AnyDoc(id, shape) ==
  IF shape = <<>> THEN NoDoc
  ELSE [NoDoc EXCEPT !.id = id, !.userId = id, !.identity = IdentityOf(id),
                     !.status = shape[1], !.queuePosition = shape[2],
                     !.createdAt = shape[3], !.updatedAt = shape[3]]

InitAny ==
  /\ \E shapes \in [Ids -> AnyShapes] :
       calls = [id \in Ids |-> AnyDoc(id, shapes[id])]
  /\ now = MaxNow
  /\ pc = [r \in Slots |-> "idle"]
  /\ arg = [r \in Slots |-> NoArg]
  /\ loc = [r \in Slots |-> NoLoc]
  /\ resp = [r \in Slots |-> NoResp]
  /\ served = 0
  /\ presence = Null
  /\ clock = 1
  /\ console = NoConsole

\* Start-call handlers that may still create a document.
PendingCreates == {r \in Slots : arg[r].op = "start" /\ pc[r] # "done"}

\* POST /twilio/start-call arrives; the handler runs to its first await,
\* the read of rebalanceCallQueue (line 633).
\* h is req.body.handoff.
StartCallWith(r, u, h) ==
  /\ pc[r] = "idle"
  /\ Cardinality({id \in Ids : Exists(calls, id)}) + Cardinality(PendingCreates)
       < MaxCalls
  /\ arg' = [arg EXCEPT ![r] = [NoArg EXCEPT !.op = "start", !.user = u,
                                              !.cred = "valid", !.handoff = h]]
  /\ loc' = [loc EXCEPT ![r] = [NoLoc EXCEPT !.ret = "sc_list"]]
  /\ pc' = [pc EXCEPT ![r] = "rebalance_read"]
  /\ served' = served + 1
  /\ UNCHANGED <<calls, now, resp, pvars>>

\* start-call with a request body that has no handoff.
StartCall(r, u) == StartCallWith(r, u, NoHandoff)

\* POST /twilio/calls/:id/status arrives (lines 722-729).
UserStatus(r, u, id, status) ==
  /\ pc[r] = "idle"
  /\ arg' = [arg EXCEPT ![r] = [NoArg EXCEPT !.op = "user_status", !.user = u,
                                              !.id = id, !.status = status,
                                              !.cred = "valid"]]
  /\ IF status \notin USER_UPDATABLE_CALL_STATUSES
     THEN /\ pc' = [pc EXCEPT ![r] = "done"]
          /\ resp' = [resp EXCEPT ![r] = StatusResponse(400)]
     ELSE /\ pc' = [pc EXCEPT ![r] = "us_get"]
          /\ resp' = resp
  /\ served' = served + 1
  /\ UNCHANGED <<calls, now, loc, pvars>>

\* UserStatusGet without the ownership check of lines 735-738.
UserStatusGet_Mutant(r) ==
  /\ pc[r] = "us_get"
  /\ IF ~Exists(calls, arg[r].id)
     THEN /\ pc' = [pc EXCEPT ![r] = "done"]
          /\ resp' = [resp EXCEPT ![r] = StatusResponse(404)]
          /\ loc' = loc
     ELSE /\ pc' = [pc EXCEPT ![r] = "us_update"]
          /\ loc' = [loc EXCEPT ![r].startedAt = calls[arg[r].id].startedAt]
          /\ resp' = resp
  /\ UNCHANGED <<calls, now, arg, served, pvars>>

\* await callRef.get() and the checks on the snapshot (lines 730-751).
UserStatusGet(r) ==
  /\ pc[r] = "us_get"
  /\ IF ~Exists(calls, arg[r].id)
     THEN /\ pc' = [pc EXCEPT ![r] = "done"]
          /\ resp' = [resp EXCEPT ![r] = StatusResponse(404)]
          /\ loc' = loc
     ELSE IF calls[arg[r].id].userId # arg[r].user
     THEN /\ pc' = [pc EXCEPT ![r] = "done"]
          /\ resp' = [resp EXCEPT ![r] = StatusResponse(403)]
          /\ loc' = loc
     ELSE /\ pc' = [pc EXCEPT ![r] = "us_update"]
          /\ loc' = [loc EXCEPT ![r].startedAt = calls[arg[r].id].startedAt]
          /\ resp' = resp
  /\ UNCHANGED <<calls, now, arg, served, pvars>>

\* await callRef.update(update) (line 753), committed at store time t.
UserStatusUpdate(r, t) ==
  /\ pc[r] = "us_update"
  /\ calls' = [calls EXCEPT ![arg[r].id] =
                 UserStatusWrite(@, arg[r].status, loc[r].startedAt, t)]
  /\ now' = t
  /\ loc' = [loc EXCEPT ![r].ret = "respond_ok", ![r].startedAt = Null,
                       ![r].prior = calls[arg[r].id].queuePosition,
                       ![r].wrote = TRUE]
  /\ pc' = [pc EXCEPT ![r] = "rebalance_read"]
  /\ UNCHANGED <<arg, resp, served, pvars>>

\* POST /pharmacist/api/calls/:id/status arrives (lines 544-556).
StaffStatus(r, id, status) ==
  /\ pc[r] = "idle"
  /\ arg' = [arg EXCEPT ![r] =
               [NoArg EXCEPT !.op = "staff_status", !.id = id,
                  !.status = IF status = "" THEN "in_progress" ELSE status]]
  /\ pc' = [pc EXCEPT ![r] = "ss_update"]
  /\ served' = served + 1
  /\ UNCHANGED <<calls, now, loc, resp, pvars>>

\* await doc(id).update(update) (line 557); update() of a missing document
\* throws, and the catch answers 500 (line 561).
StaffStatusUpdate(r, t) ==
  /\ pc[r] = "ss_update"
  /\ IF ~Exists(calls, arg[r].id)
     THEN /\ pc' = [pc EXCEPT ![r] = "done"]
          /\ resp' = [resp EXCEPT ![r] = StatusResponse(500)]
          /\ UNCHANGED <<calls, now, loc>>
     ELSE /\ calls' = [calls EXCEPT ![arg[r].id] =
                         StaffStatusWrite(@, arg[r].status, t)]
          /\ now' = t
          /\ loc' = [loc EXCEPT ![r].ret = "respond_ok",
                               ![r].prior = calls[arg[r].id].queuePosition,
                               ![r].wrote = TRUE]
          /\ pc' = [pc EXCEPT ![r] = "rebalance_read"]
          /\ resp' = resp
  /\ UNCHANGED <<arg, served, pvars>>

\* Where a handler goes when its rebalanceCallQueue call returns: the next
\* await, or the response when none is left (lines 559, 755).
AfterRebalance(r) ==
  IF loc[r].ret = "respond_ok"
  THEN /\ pc' = [pc EXCEPT ![r] = "done"]
       /\ resp' = [resp EXCEPT ![r] = StatusResponse(200)]
  ELSE /\ pc' = [pc EXCEPT ![r] = loc[r].ret]
       /\ resp' = resp

\* rebalanceCallQueue up to batch.commit(): the read of the active set and the
\* construction of the batch (lines 333-359).
RebalanceRead(r) ==
  /\ pc[r] = "rebalance_read"
  /\ LET b == RebalanceBatch(calls)
     IN IF b = <<>>
        THEN /\ AfterRebalance(r)
             /\ loc' = loc
        ELSE /\ pc' = [pc EXCEPT ![r] = "rebalance_commit"]
             /\ loc' = [loc EXCEPT ![r].batch = b]
             /\ resp' = resp
  /\ UNCHANGED <<calls, now, arg, served, pvars>>

\* await batch.commit() (line 360), committed at store time t.
RebalanceCommit(r, t) ==
  /\ pc[r] = "rebalance_commit"
  /\ calls' = CommitBatch(calls, loc[r].batch, t)
  /\ now' = t
  /\ loc' = [loc EXCEPT ![r].batch = <<>>, ![r].wrote = TRUE]
  /\ AfterRebalance(r)
  /\ UNCHANGED <<arg, served, pvars>>

\* A caller invokes rebalanceCallQueue() and does nothing else.
Rebalance(r) ==
  /\ pc[r] = "idle"
  /\ arg' = [arg EXCEPT ![r] = [NoArg EXCEPT !.op = "rebalance"]]
  /\ loc' = [loc EXCEPT ![r] = [NoLoc EXCEPT !.ret = "respond_ok"]]
  /\ pc' = [pc EXCEPT ![r] = "rebalance_read"]
  /\ served' = served + 1
  /\ UNCHANGED <<calls, now, resp, pvars>>

\* The read or the batch.commit() of that invocation rejects; the error
\* propagates to the caller.
RebalanceStoreFails(r, kind) ==
  /\ arg[r].op = "rebalance"
  /\ pc[r] \in {"rebalance_read", "rebalance_commit"}
  /\ pc' = [pc EXCEPT ![r] = "done"]
  /\ resp' = [resp EXCEPT ![r] = StatusResponse(500)]
  /\ loc' = [loc EXCEPT ![r].err = kind]
  /\ UNCHANGED <<calls, now, arg, served, pvars>>

\* await listActiveCalls() in start-call and the branch on existingCall
\* (lines 634-651); the existing-call branch runs on to the response.
StartCallList(r) ==
  /\ pc[r] = "sc_list"
  /\ LET u == arg[r].user
         existing == ExistingCall(calls, u)
     IN IF existing # 0
        THEN /\ loc' = [loc EXCEPT ![r].callRef = existing,
                          ![r].queuePosition = ExistingPosition(calls, existing)]
             /\ pc' = [pc EXCEPT ![r] = "done"]
             /\ resp' = [resp EXCEPT ![r] =
                  StartCallResponse(u, existing, ExistingPosition(calls, existing))]
        ELSE /\ loc' = [loc EXCEPT ![r].queuePosition =
                          Len(listActiveCalls(calls)) + 1]
             /\ pc' = [pc EXCEPT ![r] = "sc_set"]
             /\ resp' = resp
  /\ UNCHANGED <<calls, now, arg, served, pvars>>

\* await callRef.set({...}) (lines 648-670), committed at store time t; the
\* document id is an auto-id.
StartCallSet(r, t) ==
  /\ pc[r] = "sc_set"
  /\ \E id \in {i \in Ids : ~Exists(calls, i)} :
       /\ calls' = [calls EXCEPT ![id] =
            NewCall(id, arg[r].user, arg[r].handoff,
                    IF loc[r].queuePosition <= 1 THEN "requested" ELSE "queued",
                    loc[r].queuePosition, t)]
       /\ loc' = [loc EXCEPT ![r].callRef = id, ![r].ret = "sc_get",
                            ![r].wrote = TRUE]
  /\ now' = t
  /\ pc' = [pc EXCEPT ![r] = "rebalance_read"]
  /\ UNCHANGED <<arg, resp, served, pvars>>

\* await callRef.get() and the response (lines 672-694).
StartCallGet(r) ==
  /\ pc[r] = "sc_get"
  /\ LET refreshed == calls[loc[r].callRef]
         queuePosition == IF refreshed.queuePosition # Null
                          THEN refreshed.queuePosition ELSE loc[r].queuePosition
     IN /\ loc' = [loc EXCEPT ![r].queuePosition = queuePosition]
        /\ resp' = [resp EXCEPT ![r] =
             StartCallResponse(arg[r].user, loc[r].callRef, queuePosition)]
  /\ pc' = [pc EXCEPT ![r] = "done"]
  /\ UNCHANGED <<calls, now, arg, served, pvars>>

\* StartCallRefused answering an unconfigured telephony with a direct token.
StartCallRefused_Mutant(r, u, cred, twilio) ==
  /\ pc[r] = "idle"
  /\ ~(cred = "valid" /\ twilio)
  /\ arg' = [arg EXCEPT ![r] = [NoArg EXCEPT !.op = "start", !.user = u,
                                              !.cred = cred, !.twilio = twilio]]
  /\ pc' = [pc EXCEPT ![r] = "done"]
  /\ resp' = [resp EXCEPT ![r] =
       IF cred # "valid" THEN StatusResponse(VerifyFailureCode(cred))
       ELSE buildDirectTwilioCallPayload(u)]
  /\ served' = served + 1
  /\ UNCHANGED <<calls, now, loc, pvars>>

\* POST /twilio/start-call that does not reach the queue: the credential is
\* rejected (lines 624, 715-716) or telephony is not configured (626-630).
StartCallRefused(r, u, cred, twilio) ==
  /\ pc[r] = "idle"
  /\ ~(cred = "valid" /\ twilio)
  /\ arg' = [arg EXCEPT ![r] = [NoArg EXCEPT !.op = "start", !.user = u,
                                              !.cred = cred, !.twilio = twilio]]
  /\ pc' = [pc EXCEPT ![r] = "done"]
  /\ resp' = [resp EXCEPT ![r] =
       StatusResponse(IF cred # "valid" THEN VerifyFailureCode(cred) ELSE 503)]
  /\ served' = served + 1
  /\ UNCHANGED <<calls, now, loc, pvars>>

\* POST /twilio/calls/:id/status whose credential is rejected (lines 722,
\* 756-759); the credential is verified before the status is validated.
UserStatusRefused(r, u, id, status, cred) ==
  /\ pc[r] = "idle"
  /\ cred # "valid"
  /\ arg' = [arg EXCEPT ![r] = [NoArg EXCEPT !.op = "user_status", !.user = u,
                                              !.id = id, !.status = status,
                                              !.cred = cred]]
  /\ pc' = [pc EXCEPT ![r] = "done"]
  /\ resp' = [resp EXCEPT ![r] = StatusResponse(VerifyFailureCode(cred))]
  /\ served' = served + 1
  /\ UNCHANGED <<calls, now, loc, pvars>>

\* GET /twilio/calls/:id arrives (lines 762-766).
GetCall(r, u, id, cred) ==
  /\ pc[r] = "idle"
  /\ arg' = [arg EXCEPT ![r] = [NoArg EXCEPT !.op = "get_call", !.user = u,
                                              !.id = id, !.cred = cred]]
  /\ IF cred # "valid"
     THEN /\ pc' = [pc EXCEPT ![r] = "done"]
          /\ resp' = [resp EXCEPT ![r] = StatusResponse(VerifyFailureCode(cred))]
     ELSE /\ pc' = [pc EXCEPT ![r] = "gc_get"]
          /\ resp' = resp
  /\ served' = served + 1
  /\ UNCHANGED <<calls, now, loc, pvars>>

\* await doc(id).get() of GET /twilio/calls/:id and the response (767-775).
GetCallGet(r) ==
  /\ pc[r] = "gc_get"
  /\ pc' = [pc EXCEPT ![r] = "done"]
  /\ resp' = [resp EXCEPT ![r] =
       IF ~Exists(calls, arg[r].id) THEN StatusResponse(404)
       ELSE IF calls[arg[r].id].userId # arg[r].user THEN StatusResponse(403)
       ELSE [StatusResponse(200) EXCEPT !.requestId = arg[r].id]]
  /\ UNCHANGED <<calls, now, arg, loc, served, pvars>>

\* The store operation start-call awaits rejects with an error of the given
\* kind, nothing of the operation is applied, and the catch block answers.
StartCallStoreFails(r, kind) ==
  /\ arg[r].op = "start"
  /\ pc[r] \in {"rebalance_read", "rebalance_commit", "sc_list", "sc_set", "sc_get"}
  /\ pc' = [pc EXCEPT ![r] = "done"]
  /\ resp' = [resp EXCEPT ![r] = StartCallCatch(arg[r], kind)]
  /\ loc' = [loc EXCEPT ![r].err = kind]
  /\ UNCHANGED <<calls, now, arg, served, pvars>>

\* The store operation a status handler or the call read awaits rejects with
\* an error of the given kind, and the catch block answers.
StatusStoreFails(r, kind) ==
  /\ arg[r].op \in {"user_status", "staff_status", "get_call"}
  /\ pc[r] \in {"rebalance_read", "rebalance_commit", "us_get", "us_update",
                 "ss_update", "gc_get"}
  /\ pc' = [pc EXCEPT ![r] = "done"]
  /\ resp' = [resp EXCEPT ![r] = StatusCatch(kind)]
  /\ loc' = [loc EXCEPT ![r].err = kind]
  /\ UNCHANGED <<calls, now, arg, served, pvars>>

\* online with the window test made inclusive.
PresenceOnline_Mutant(updatedAt, t) ==
  LET updatedAtMillis == IF updatedAt # Null THEN updatedAt * MillisPerStep ELSE 0
  IN updatedAtMillis > 0
       /\ t * MillisPerStep - updatedAtMillis <= PresenceWindowMillis

\* online of GET /pharmacist-presence (lines 819-822): updatedAt is the
\* presence document's updatedAt, t the wall clock (Date.now()).
PresenceOnline(updatedAt, t) ==
  LET updatedAtMillis == IF updatedAt # Null THEN updatedAt * MillisPerStep ELSE 0
  IN updatedAtMillis > 0
       /\ t * MillisPerStep - updatedAtMillis < PresenceWindowMillis

\* estimatedWaitMinutes with the caller at the head counted as waiting.
EstimatedWaitMinutes_Mutant(activeCalls) == Max(0, activeCalls * MinutesPerCall)

\* Math.max(0, (activeCalls - 1) * 6) (line 829).
EstimatedWaitMinutes(activeCalls) == Max(0, (activeCalls - 1) * MinutesPerCall)

\* The success response of the presence read (lines 831-835).
PresenceResponse(online, activeCalls) ==
  [NoResp EXCEPT
     !.code = 200,
     !.presence = [online |-> online, activeCalls |-> activeCalls,
                   estimatedWaitMinutes |-> EstimatedWaitMinutes(activeCalls)]]

\* The catch block of the presence read (lines 836-846): a quota error is
\* answered with the degraded offline payload, any other error with 500.
PresenceCatch(kind) ==
  IF kind = "quota"
  THEN [NoResp EXCEPT !.code = 200, !.degraded = TRUE]
  ELSE [NoResp EXCEPT !.code = 500]

\* POST /pharmacist/api/presence/heartbeat arrives and runs to its set().
Heartbeat(r) ==
  /\ pc[r] = "idle"
  /\ arg' = [arg EXCEPT ![r] = [NoArg EXCEPT !.op = "heartbeat"]]
  /\ pc' = [pc EXCEPT ![r] = "hb_set"]
  /\ served' = served + 1
  /\ UNCHANGED <<calls, now, loc, resp, presence, clock, console>>

\* await doc("console").set({..., updatedAt: serverTimestamp()}, {merge: true})
\* and the response (lines 576-584).
HeartbeatSet(r) ==
  /\ pc[r] = "hb_set"
  /\ presence' = clock
  /\ loc' = [loc EXCEPT ![r].wrote = TRUE]
  /\ resp' = [resp EXCEPT ![r] = [NoResp EXCEPT !.code = 200]]
  /\ pc' = [pc EXCEPT ![r] = "done"]
  /\ UNCHANGED <<calls, now, arg, served, clock, console>>

\* GET /pharmacist-presence arrives and runs to the read of the presence
\* document (line 818).
PresenceRead(r) ==
  /\ pc[r] = "idle"
  /\ arg' = [arg EXCEPT ![r] = [NoArg EXCEPT !.op = "presence"]]
  /\ pc' = [pc EXCEPT ![r] = "pp_get"]
  /\ served' = served + 1
  /\ UNCHANGED <<calls, now, loc, resp, presence, clock, console>>

\* await doc("console").get(), then online (lines 818-822).
PresenceGet(r) ==
  /\ pc[r] = "pp_get"
  /\ loc' = [loc EXCEPT ![r].online = PresenceOnline(presence, clock),
                       ![r].beat = presence, ![r].readAt = clock]
  /\ pc' = [pc EXCEPT ![r] = "pp_count"]
  /\ UNCHANGED <<calls, now, arg, resp, served, presence, clock, console>>

\* await the active-status query, then the response (lines 824-835).
PresenceCount(r) ==
  /\ pc[r] = "pp_count"
  /\ resp' = [resp EXCEPT ![r] =
       PresenceResponse(loc[r].online, Cardinality(ActiveIds(calls)))]
  /\ pc' = [pc EXCEPT ![r] = "done"]
  /\ UNCHANGED <<calls, now, arg, loc, served, presence, clock, console>>

\* The store operation a presence handler awaits rejects with an error of the
\* given kind; the heartbeat's catch answers 500 (lines 585-587).
PresenceStoreFails(r, kind) ==
  /\ arg[r].op \in {"heartbeat", "presence"}
  /\ pc[r] \in {"hb_set", "pp_get", "pp_count"}
  /\ pc' = [pc EXCEPT ![r] = "done"]
  /\ resp' = [resp EXCEPT ![r] =
       IF arg[r].op = "presence" THEN PresenceCatch(kind)
       ELSE [NoResp EXCEPT !.code = 500]]
  /\ loc' = [loc EXCEPT ![r].err = kind]
  /\ UNCHANGED <<calls, now, arg, served, presence, clock, console>>

\* MillisPerStep milliseconds pass.
Tick ==
  /\ clock < MaxClock
  /\ clock' = clock + 1
  /\ UNCHANGED <<calls, now, pc, arg, loc, resp, served, presence, console>>

\* updateCallStatusQuietly(callId, status) up to its fetch: the notification
\* is sent unless callId is empty; the caller does not wait for the answer.
Posted(posts, callId, status) ==
  IF callId # Null THEN Append(posts, [id |-> callId, status |-> status])
  ELSE posts

\* device.on("incoming") (lines 487-493): the incoming call is wired with the
\* requestId of its custom parameters (Null without one) and ringing is sent.
Incoming(id) ==
  /\ console.leg = "none"
  /\ console.legs < MaxLegs
  /\ console' = [console EXCEPT
       !.leg = "pending", !.direction = "incoming", !.requestId = id,
       !.wasConnected = FALSE, !.event = "incoming",
       !.posts = Posted(@, id, "ringing"), !.legs = @ + 1,
       !.canMute = FALSE, !.audioMuted = FALSE]
  /\ UNCHANGED <<calls, now, pc, arg, loc, resp, served, presence, clock>>

\* setLiveCallUI({...}) with canHangup false (lines 237-246): the page's mute
\* and hold state is reset; canMute is the button state it is called with.
LiveCallClosed(c) ==
  [c EXCEPT !.isMuted = FALSE, !.isOnHold = FALSE, !.canMute = FALSE]

\* MISSED_CALL_STATUSES and hasCallback of renderCalls (lines 49, 643-645):
\* the history entries that carry a Call back button.
MISSED_CALL_STATUSES ==
  {"failed", "cancelled", "missed", "no_answer", "busy", "rejected"}

hasCallback(c, id) ==
  c[id].status \in MISSED_CALL_STATUSES /\ c[id].identity # <<>>

\* s without its k-th element.
RemoveAt(s, k) == SubSeq(s, 1, k - 1) \o SubSeq(s, k + 1, Len(s))

\* startCallbackCall(call) up to await device.connect (lines 383-415): it
\* returns early only when activeVoiceCall or incomingVoiceCall is set, which
\* neither is before a call is wired and after it has ended.
StartCallback(id) ==
  /\ console.leg \in {"none", "dialling", "ended"}
  /\ console' = [console EXCEPT
       !.leg = "dialling", !.direction = "outgoing", !.requestId = id,
       !.wasConnected = FALSE, !.event = "connect", !.legs = @ + 1,
       !.dials = Append(@, id), !.canMute = FALSE]
  /\ UNCHANGED <<calls, now, pc, arg, loc, resp, served, presence, clock>>

\* device.connect of the k-th waiting invocation resolves while no call is
\* wired: the call becomes activeVoiceCall, is wired, and ringing is sent
\* (lines 421-423).
CallbackConnected(k) ==
  /\ console.leg = "dialling"
  /\ k \in 1..Len(console.dials)
  /\ console' = [console EXCEPT
       !.leg = "pending", !.event = "connected",
       !.requestId = console.dials[k],
       !.posts = Posted(@, console.dials[k], "ringing"),
       !.dials = RemoveAt(@, k), !.audioMuted = FALSE]
  /\ UNCHANGED <<calls, now, pc, arg, loc, resp, served, presence, clock>>

\* device.connect of the k-th waiting invocation rejects: the live call card
\* is closed and failed is sent (lines 424-439); activeVoiceCall and
\* incomingVoiceCall are left as they are.
CallbackFailed(k) ==
  /\ k \in 1..Len(console.dials)
  /\ console' = [LiveCallClosed(console) EXCEPT
       !.leg = IF console.leg = "dialling" /\ Len(console.dials) = 1
               THEN "ended" ELSE @,
       !.event = IF console.leg = "dialling" THEN "connect_failed" ELSE @,
       !.requestId = IF console.leg = "dialling" THEN console.dials[k] ELSE @,
       !.posts = Posted(@, console.dials[k], "failed"),
       !.dials = RemoveAt(@, k)]
  /\ UNCHANGED <<calls, now, pc, arg, loc, resp, served, presence, clock>>

\* call.on("ringing") (lines 266-271), fired by an outgoing call.
LegRinging ==
  /\ console.leg = "pending" /\ console.direction = "outgoing"
  /\ console.event = "connected"
  /\ console' = [console EXCEPT
       !.event = "ringing",
       !.posts = Posted(@, console.requestId, "ringing")]
  /\ UNCHANGED <<calls, now, pc, arg, loc, resp, served, presence, clock>>

\* call.on("accept") (lines 273-301).
LegAccept ==
  /\ console.leg = "pending"
  /\ console' = [console EXCEPT
       !.leg = "accepted", !.wasConnected = TRUE, !.event = "accept",
       !.isOnHold = FALSE, !.isMuted = FALSE, !.canMute = TRUE,
       !.posts = Posted(@, console.requestId, "in_progress")]
  /\ UNCHANGED <<calls, now, pc, arg, loc, resp, served, presence, clock>>

\* call.on("disconnect") (lines 303-324): of an accepted call, of an outgoing
\* call that was never accepted, or after an error.
LegDisconnect ==
  /\ \/ console.leg \in {"accepted", "errored"}
     \/ console.leg = "pending" /\ console.direction = "outgoing"
  /\ console' = [LiveCallClosed(console) EXCEPT
       !.leg = "ended", !.event = "disconnect",
       !.posts = Posted(@, console.requestId,
                        IF console.wasConnected THEN "completed" ELSE "missed")]
  /\ UNCHANGED <<calls, now, pc, arg, loc, resp, served, presence, clock>>

\* call.on("cancel") (lines 326-346): the caller hung up before the answer.
LegCancel ==
  /\ console.leg = "pending" /\ console.direction = "incoming"
  /\ console' = [LiveCallClosed(console) EXCEPT
       !.leg = "ended", !.event = "cancel",
       !.posts = Posted(@, console.requestId, "missed")]
  /\ UNCHANGED <<calls, now, pc, arg, loc, resp, served, presence, clock>>

\* The end-call button on an incoming call (lines 774-793): reject() fires
\* call.on("reject") (lines 348-357), which sends missed, and the button
\* handler sends missed itself.
LegReject ==
  /\ console.leg = "pending" /\ console.direction = "incoming"
  /\ console' = [LiveCallClosed(console) EXCEPT
       !.leg = "ended", !.event = "reject",
       !.posts = Posted(Posted(@, console.requestId, "missed"),
                        console.requestId, "missed")]
  /\ UNCHANGED <<calls, now, pc, arg, loc, resp, served, presence, clock>>

\* call.on("error") (lines 359-380).
LegError ==
  /\ console.leg \in {"pending", "accepted"}
  /\ console' = [LiveCallClosed(console) EXCEPT
       !.leg = "errored", !.event = "error",
       !.posts = Posted(@, console.requestId, "failed")]
  /\ UNCHANGED <<calls, now, pc, arg, loc, resp, served, presence, clock>>

\* muteCallBtn click (lines 801-807): needs activeVoiceCall and an enabled
\* button; toggles state.isMuted and calls activeVoiceCall.mute with it.
MuteCallBtn ==
  /\ console.leg = "accepted"
  /\ console.canMute
  /\ console' = [console EXCEPT
       !.isMuted = ~@, !.audioMuted = ~console.isMuted, !.presses = @ + 1]
  /\ UNCHANGED <<calls, now, pc, arg, loc, resp, served, presence, clock>>

\* holdCallBtn click (lines 809-815): toggles state.isOnHold and calls
\* activeVoiceCall.mute with it.
HoldCallBtn ==
  /\ console.leg = "accepted"
  /\ console.canMute
  /\ console' = [console EXCEPT
       !.isOnHold = ~@, !.audioMuted = ~console.isOnHold, !.presses = @ + 1]
  /\ UNCHANGED <<calls, now, pc, arg, loc, resp, served, presence, clock>>

\* The oldest notification in flight reaches the server: POST
\* /pharmacist/api/calls/:id/status arrives (server.js lines 544-556).
PostArrives(r) ==
  /\ pc[r] = "idle"
  /\ console.posts # <<>>
  /\ arg' = [arg EXCEPT ![r] =
               [NoArg EXCEPT !.op = "staff_status",
                  !.id = Head(console.posts).id,
                  !.status = Head(console.posts).status]]
  /\ pc' = [pc EXCEPT ![r] = "ss_update"]
  /\ served' = served + 1
  /\ console' = [console EXCEPT !.posts = Tail(@)]
  /\ UNCHANGED <<calls, now, loc, resp, presence, clock>>

\* The response has been delivered; the slot takes the next request.
Finish(r) ==
  /\ pc[r] = "done"
  /\ pc' = [pc EXCEPT ![r] = "idle"]
  /\ arg' = [arg EXCEPT ![r] = NoArg]
  /\ loc' = [loc EXCEPT ![r] = NoLoc]
  /\ resp' = [resp EXCEPT ![r] = NoResp]
  /\ UNCHANGED <<calls, now, served, pvars>>

----------------------------------------------------------------------------
(* Specifications *)

\* The commit time of a write when the store's clock stands still, and when
\* it may have advanced by a tick since the last write.
Frozen == {now}
Passing == {t \in {now, now + 1} : t <= MaxNow}

\* The steps of a handler after its request has arrived; T is the set of
\* commit times a write may get.
RebalanceStep(r, T) ==
  \/ RebalanceRead(r)
  \/ \E t \in T : RebalanceCommit(r, t)

StartCallStep(r, T) ==
  \/ StartCallList(r)
  \/ \E t \in T : StartCallSet(r, t)
  \/ StartCallGet(r)

StatusStep(r, T) ==
  \/ UserStatusGet(r)
  \/ \E t \in T : UserStatusUpdate(r, t)
  \/ \E t \in T : StaffStatusUpdate(r, t)

\* A new request takes the lowest idle slot of R (slots are interchangeable).
FreeSlot(R, r) ==
  /\ r \in R
  /\ pc[r] = "idle"
  /\ \A q \in R : q < r => pc[q] # "idle"

\* Status strings the clients send in Spec: one non-terminal and one terminal
\* status per caller.
RaceUserInputs == {"in_progress", "cancelled"}
RaceStaffInputs == {"ringing", "completed"}

\* Spec: up to MaxReqs requests in flight at once, their store steps
\* interleaved in any order, all within one tick of the store's clock.
Next ==
  \/ \E r \in Reqs, u \in Users :
       FreeSlot(Reqs, r) /\ served < MaxRequests /\ StartCall(r, u)
  \/ \E r \in Reqs, u \in Users, id \in Ids, s \in RaceUserInputs :
       FreeSlot(Reqs, r) /\ served < MaxRequests /\ UserStatus(r, u, id, s)
  \/ \E r \in Reqs, id \in Ids, s \in RaceStaffInputs :
       FreeSlot(Reqs, r) /\ served < MaxRequests /\ StaffStatus(r, id, s)
  \/ \E r \in Reqs : RebalanceStep(r, Frozen)
  \/ \E r \in Reqs : StartCallStep(r, Frozen)
  \/ \E r \in Reqs : StatusStep(r, Frozen)
  \/ \E r \in Reqs : Finish(r)

Spec == Init /\ [][Next]_vars

\* Handoffs the clients send in SpecFrame: none, and one whose texts exceed
\* the length limits.
HandoffInputs ==
  {NoHandoff,
   [userMessage |-> MaxUserMessage + 1,
    summarizedLogs |-> MaxSummarizedLogs + 1, attachedRange |-> 1]}

\* SpecFrame: as Spec, with the admissions carrying a handoff, the owners
\* reporting in_progress and the staff console reporting completed.
NextFrame ==
  \/ \E r \in Reqs, u \in Users, h \in HandoffInputs :
       FreeSlot(Reqs, r) /\ served < MaxRequests /\ StartCallWith(r, u, h)
  \/ \E r \in Reqs, u \in Users, id \in Ids, s \in {"in_progress"} :
       FreeSlot(Reqs, r) /\ served < MaxRequests /\ UserStatus(r, u, id, s)
  \/ \E r \in Reqs, id \in Ids, s \in {"completed"} :
       FreeSlot(Reqs, r) /\ served < MaxRequests /\ StaffStatus(r, id, s)
  \/ \E r \in Reqs : RebalanceStep(r, Frozen)
  \/ \E r \in Reqs : StartCallStep(r, Frozen)
  \/ \E r \in Reqs : StatusStep(r, Frozen)
  \/ \E r \in Reqs : Finish(r)

SpecFrame == Init /\ [][NextFrame]_vars

\* SpecSeq: one request at a time, with every status string.
NextSeq ==
  \/ \E u \in Users :
       served < MaxRequests /\ StartCall(1, u)
  \/ \E u \in Users, id \in Ids, s \in StatusInputs :
       served < MaxRequests /\ UserStatus(1, u, id, s)
  \/ \E id \in Ids, s \in StatusInputs :
       served < MaxRequests /\ StaffStatus(1, id, s)
  \/ RebalanceStep(1, Frozen)
  \/ StartCallStep(1, Frozen)
  \/ StatusStep(1, Frozen)
  \/ Finish(1)

SpecSeq == Init /\ [][NextSeq]_vars

\* SpecAdmit: MaxSlots distinct users without a call record (user r on slot r)
\* each run start-call once, all concurrently, and no other operation runs;
\* time may pass between the writes.
NextAdmit ==
  \/ \E r \in Slots : StartCall(r, r)
  \/ \E r \in Slots : RebalanceStep(r, Passing)
  \/ \E r \in Slots : StartCallStep(r, Passing)

SpecAdmit == Init /\ [][NextAdmit]_vars

\* SpecQueue: MaxCalls users are admitted, each once and in turn; the staff
\* console completes active calls and their owners cancel them; up to MaxReqs
\* requests overlap and time may pass before a record is created.
Callers == 1..MaxCalls

HasCall(u) ==
  \/ \E id \in Ids : calls[id].userId = u
  \/ \E r \in Reqs : arg[r].op = "start" /\ arg[r].user = u

NextQueue ==
  \/ \E r \in Reqs, u \in Callers :
       /\ FreeSlot(Reqs, r)
       /\ ~HasCall(u)
       /\ \A v \in Callers : v < u => HasCall(v)
       /\ StartCall(r, u)
  \/ \E r \in Reqs, id \in Ids :
       /\ FreeSlot(Reqs, r)
       /\ served < MaxRequests
       /\ IsActive(calls, id)
       /\ \/ StaffStatus(r, id, "completed")
          \/ UserStatus(r, calls[id].userId, id, "cancelled")
  \/ \E r \in Reqs : RebalanceStep(r, Frozen)
  \/ \E r \in Reqs : StartCallStep(r, Passing)
  \/ \E r \in Reqs : StatusStep(r, Frozen)
  \/ \E r \in Reqs : Finish(r)

SpecQueue == Init /\ [][NextQueue]_vars

\* SpecFault: one request at a time; a request may carry a missing or an
\* invalid credential, telephony may be unconfigured, and every awaited store
\* operation may reject with a quota error or with another error.
FaultStep(r) ==
  \/ \E kind \in StoreErrors : StartCallStoreFails(r, kind)
  \/ \E kind \in StoreErrors : StatusStoreFails(r, kind)

NextFault ==
  \/ \E u \in Users :
       served < MaxRequests /\ StartCall(1, u)
  \/ \E u \in Users, cred \in Credentials, twilio \in BOOLEAN :
       served < MaxRequests /\ StartCallRefused(1, u, cred, twilio)
  \/ \E u \in Users, id \in Ids, s \in RaceUserInputs :
       served < MaxRequests /\ UserStatus(1, u, id, s)
  \/ \E u \in Users, id \in Ids, s \in RaceUserInputs, cred \in Credentials :
       served < MaxRequests /\ UserStatusRefused(1, u, id, s, cred)
  \/ \E id \in Ids, s \in RaceStaffInputs :
       served < MaxRequests /\ StaffStatus(1, id, s)
  \/ \E u \in Users, id \in Ids, cred \in Credentials :
       served < MaxRequests /\ GetCall(1, u, id, cred)
  \/ GetCallGet(1)
  \/ RebalanceStep(1, Frozen)
  \/ StartCallStep(1, Frozen)
  \/ StatusStep(1, Frozen)
  \/ FaultStep(1)
  \/ Finish(1)

SpecFault == Init /\ [][NextFault]_vars

\* SpecTurns: one request at a time on a healthy store; the callers 1, 2, 3
\* (A, B, C) run start-call in that order, then A's record is set to
\* completed, by A or by the staff console; time may pass before each write.
RecordOf(u) == {id \in Ids : calls[id].userId = u}

NextTurns ==
  \/ \E u \in Callers :
       /\ ~HasCall(u)
       /\ \A v \in Callers : v < u => HasCall(v)
       /\ StartCall(1, u)
  \/ \E id \in RecordOf(1) :
       /\ \A v \in Callers : HasCall(v)
       /\ IsActive(calls, id)
       /\ \/ StaffStatus(1, id, "completed")
          \/ UserStatus(1, 1, id, "completed")
  \/ RebalanceStep(1, Passing)
  \/ StartCallStep(1, Passing)
  \/ StatusStep(1, Passing)
  \/ Finish(1)

SpecTurns == Init /\ [][NextTurns]_vars

\* SpecRebalance: from any store state, rebalanceCallQueue is run up to
\* MaxRuns times, one run after the other, with nothing else writing; the
\* read or the commit of the last run may reject.
NextRebalance ==
  \/ served < MaxRuns /\ Rebalance(1)
  \/ RebalanceStep(1, Frozen)
  \/ \E kind \in StoreErrors :
       served = MaxRuns /\ RebalanceStoreFails(1, kind)
  \/ Finish(1)

SpecRebalance == InitAny /\ [][NextRebalance]_vars

\* SpecStamp: one request at a time while the store's clock advances; users
\* are admitted, and owners and the staff console report ringing and
\* in_progress.
StampInputs == {"ringing", "in_progress"}

NextStamp ==
  \/ \E u \in Users : served < MaxRequests /\ StartCall(1, u)
  \/ \E u \in Users, id \in Ids, s \in StampInputs :
       served < MaxRequests /\ UserStatus(1, u, id, s)
  \/ \E id \in Ids, s \in StampInputs :
       served < MaxRequests /\ StaffStatus(1, id, s)
  \/ RebalanceStep(1, Passing)
  \/ StartCallStep(1, Passing)
  \/ StatusStep(1, Passing)
  \/ Finish(1)

SpecStamp == Init /\ [][NextStamp]_vars

\* SpecConsole: user 1 is admitted; the staff console handles up to MaxLegs
\* telephony legs for call records (incoming, or called back), the leg's
\* events fire, and the status notifications arrive at the server in the
\* order sent, up to MaxReqs of them being handled at once.
LegEvent ==
  \/ \E k \in 1..Len(console.dials) : CallbackConnected(k)
  \/ \E k \in 1..Len(console.dials) : CallbackFailed(k)
  \/ LegRinging
  \/ LegAccept
  \/ LegDisconnect
  \/ LegCancel
  \/ LegReject
  \/ LegError

NextConsole ==
  \/ \E r \in Reqs : FreeSlot(Reqs, r) /\ ~HasCall(1) /\ StartCall(r, 1)
  \/ \E id \in Ids \cup {Null} : (id = Null \/ Exists(calls, id)) /\ Incoming(id)
  \/ \E id \in Ids :
       console.legs < MaxLegs /\ Exists(calls, id) /\ StartCallback(id)
  \/ LegEvent
  \/ \E r \in Reqs : FreeSlot(Reqs, r) /\ PostArrives(r)
  \/ \E r \in Reqs : RebalanceStep(r, Frozen)
  \/ \E r \in Reqs : StartCallStep(r, Frozen)
  \/ \E r \in Reqs : StatusStep(r, Frozen)
  \/ \E r \in Reqs : Finish(r)

SpecConsole == Init /\ [][NextConsole]_vars

\* SpecDesk: the staff console with one request at a time at the server: user
\* 1 is admitted, an incoming leg for the record may be missed, the Call back
\* button of a history entry is clicked (up to MaxDeskLegs legs in all), and
\* the Mute and Hold buttons are pressed up to MaxPresses times.  A
\* device.connect still waiting once a call is wired is followed only to its
\* rejection.
NextDesk ==
  \/ ~HasCall(1) /\ StartCall(1, 1)
  \/ \E id \in Ids : Exists(calls, id) /\ Incoming(id)
  \/ \E id \in Ids :
       console.legs < MaxDeskLegs /\ hasCallback(calls, id) /\ StartCallback(id)
  \/ LegEvent
  \/ console.presses < MaxPresses /\ MuteCallBtn
  \/ console.presses < MaxPresses /\ HoldCallBtn
  \/ PostArrives(1)
  \/ RebalanceStep(1, Frozen)
  \/ StartCallStep(1, Frozen)
  \/ StatusStep(1, Frozen)
  \/ Finish(1)

SpecDesk == Init /\ [][NextDesk]_vars

\* SpecPresence: one request at a time while the wall clock advances; the
\* staff console sends heartbeats, clients read the presence, callers are
\* admitted in turn and the staff console completes active calls; a store
\* operation of a presence handler may reject.
PresenceStep(r) ==
  \/ HeartbeatSet(r)
  \/ PresenceGet(r)
  \/ PresenceCount(r)

NextPresence ==
  \/ served < MaxRequests /\ Heartbeat(1)
  \/ served < MaxRequests /\ PresenceRead(1)
  \/ PresenceStep(1)
  \/ \E kind \in StoreErrors : PresenceStoreFails(1, kind)
  \/ Tick
  \/ \E u \in Callers :
       /\ ~HasCall(u)
       /\ \A v \in Callers : v < u => HasCall(v)
       /\ StartCall(1, u)
  \/ \E id \in Ids :
       /\ served < MaxRequests
       /\ IsActive(calls, id)
       /\ StaffStatus(1, id, "completed")
  \/ RebalanceStep(1, Frozen)
  \/ StartCallStep(1, Frozen)
  \/ StatusStep(1, Frozen)
  \/ Finish(1)

SpecPresence == Init /\ [][NextPresence]_vars

----------------------------------------------------------------------------
(* Claims *)

ActiveOf(u) == {id \in Ids : IsActive(calls, id) /\ calls[id].userId = u}

\* C1: in every reachable state, under any interleaving of admissions and
\* status updates from users and from the staff console, at most one call
\* record per userId has an active status.
C1_OneActivePerUser == \A u \in Users : Cardinality(ActiveOf(u)) <= 1

Quiescent == \A r \in Slots : pc[r] \in {"idle", "done"}

\* C2: once all the concurrent start-calls of N distinct users have returned,
\* the active records' queuePosition values are exactly {1..N} (no duplicate,
\* no gap) and ascend with createdAt.
C2_PositionsAfterAdmissions ==
  Quiescent =>
    LET A == ActiveIds(calls)
    IN /\ \A n \in 1..Cardinality(A) :
            Cardinality({i \in A : calls[i].queuePosition = n}) = 1
       /\ \A i, j \in A :
            calls[i].createdAt < calls[j].createdAt
              => calls[i].queuePosition < calls[j].queuePosition

\* The step taken is a step of the handler in slot r.
StepOf(r) == pc'[r] # pc[r]

\* The start-call handler in slot r reads the active set, and the caller has
\* an active record in the store.
ReadmissionRead(r) ==
  /\ pc[r] = "sc_list"
  /\ StepOf(r)
  /\ ActiveOf(arg[r].user) # {}

Returns(r) == pc[r] # "done" /\ pc'[r] = "done"

\* C4: a start-call answered from the queue carries a token (queued:false,
\* queuePosition 1) exactly when the caller's resolved position is 1; with a
\* resolved position above 1 the answer is queued:true with that position and
\* without a token.
C4_TokenOnlyAtHead ==
  \A r \in Slots :
    (pc[r] = "done" /\ arg[r].op = "start" /\ resp[r].code = 200) =>
      LET p == loc[r].queuePosition
      IN /\ p >= 1
         /\ (resp[r].token # NoToken) <=> (p = 1)
         /\ p = 1 => /\ ~resp[r].queued
                     /\ resp[r].queuePosition = 1
                     /\ resp[r].token =
                          createTwilioVoiceToken(IdentityOf(arg[r].user))
         /\ p > 1 => /\ resp[r].queued
                     /\ resp[r].queuePosition = p
                     /\ resp[r].token = NoToken

\* Two admissions have been answered, one with a token at position 1 and one
\* queued at position 2.
C4_Witness ==
  \E r, q \in Slots :
    /\ pc[r] = "done" /\ arg[r].op = "start"
    /\ pc[q] = "done" /\ arg[q].op = "start"
    /\ ~resp[r].queued /\ resp[r].token # NoToken /\ loc[r].queuePosition = 1
    /\ resp[q].queued /\ resp[q].queuePosition = 2 /\ loc[q].queuePosition = 2

\* The handler in slot r is a status update (user or staff) to a terminal
\* status that is accepted: it answers 200 in this step.
TerminalUpdateReturns(r) ==
  /\ arg[r].op \in {"user_status", "staff_status"}
  /\ arg[r].status \in TERMINAL_CALL_STATUSES
  /\ Returns(r)
  /\ resp'[r].code = 200

\* C5: every accepted status update to a terminal status, through the user
\* endpoint or the staff console endpoint, leaves the record with queuePosition
\* null and endedAt set when the operation returns.
C5_TerminalClearsPosition ==
  [][\A r \in Slots :
       TerminalUpdateReturns(r) =>
         /\ calls'[arg[r].id].queuePosition = Null
         /\ calls'[arg[r].id].endedAt # Null]_vars

\* The status update returning in slot r moved the head of the queue (the
\* record that held queuePosition 1 when the write was applied) to a terminal
\* status.
HeadTerminated(r) == TerminalUpdateReturns(r) /\ loc[r].prior = 1

\* Record i is the earliest-created active record of store c other than x.
EarliestRemaining(c, x, i) ==
  /\ i \in ActiveIds(c) \ {x}
  /\ \A j \in ActiveIds(c) \ {x, i} : c[i].createdAt < c[j].createdAt

\* C6: when the record at queue position 1 is moved to a terminal status and
\* other active records exist, then when that status update (its rebalance
\* included) returns, the earliest-created remaining active record has
\* queuePosition 1 and a status other than queued.
C6_HeadCompletionPromotes ==
  [][\A r \in Slots :
       HeadTerminated(r) =>
         \A i \in Ids :
           EarliestRemaining(calls', arg[r].id, i) =>
             /\ calls'[i].queuePosition = 1
             /\ calls'[i].status # "queued"]_vars

\* C7: once a record's status is terminal, no status update brings the stored
\* status back to a non-terminal value.
C7_TerminalIsAbsorbing ==
  [][\A id \in Ids :
       IsTerminal(calls, id) => calls'[id].status \in TERMINAL_CALL_STATUSES]_vars

\* The step taken belongs to a user-endpoint status update in slot r that
\* targets an existing record of another user; a step of the handler before
\* its update: the arrival with the validation, or the read of the record.
ForeignUpdateStep(r) ==
  /\ StepOf(r)
  /\ pc[r] \in {"idle", "us_get"}
  /\ arg'[r].op = "user_status"
  /\ Exists(calls, arg'[r].id)
  /\ calls[arg'[r].id].userId # arg'[r].user

\* C8 (as amended): a user-endpoint status update with a whitelisted status
\* for a record whose userId differs from the caller's uid is answered 403
\* when the handler has read the record, and no step of the handler changes
\* any record.
C8_ForeignUpdateDenied ==
  [][\A r \in Slots :
       ForeignUpdateStep(r) =>
         /\ calls' = calls
         /\ (arg'[r].status \in {"ringing", "in_progress", "completed",
                                 "failed", "cancelled", "missed"}
               /\ pc[r] = "us_get")
              => (pc'[r] = "done" /\ resp'[r].code = 403)
         /\ pc'[r] # "us_update"]_vars

\* C8 as stated: whatever the requested status, the update of another user's
\* record is answered 403.
C8_Original ==
  [][\A r \in Slots :
       (ForeignUpdateStep(r) /\ Returns(r)) =>
         (resp'[r].code = 403 /\ calls' = calls)]_vars

\* A user's update of another user's record has been answered 403.
C8_Witness ==
  \E r \in Slots :
    /\ pc[r] = "done"
    /\ arg[r].op = "user_status"
    /\ arg[r].status \in USER_UPDATABLE_CALL_STATUSES
    /\ Exists(calls, arg[r].id)
    /\ calls[arg[r].id].userId # arg[r].user
    /\ resp[r].code = 403

\* C9: a user-endpoint status update whose requested status is not one of
\* ringing, in_progress, completed, failed, cancelled, missed is answered 400
\* at once and changes no record.
C9_InvalidStatusRejected ==
  [][\A r \in Slots :
       (/\ pc[r] = "idle"
        /\ arg'[r].op = "user_status"
        /\ arg'[r].status \notin {"ringing", "in_progress", "completed",
                                   "failed", "cancelled", "missed"})
       => /\ pc'[r] = "done"
          /\ resp'[r].code = 400
          /\ calls' = calls]_vars

\* The owner of an active record has asked for status queued and got 400.
C9_Witness ==
  \E r \in Slots :
    /\ pc[r] = "done"
    /\ arg[r].op = "user_status"
    /\ arg[r].status = "queued"
    /\ IsActive(calls, arg[r].id)
    /\ calls[arg[r].id].userId = arg[r].user
    /\ resp[r].code = 400

\* C10: a status update, through the user endpoint or the staff console
\* endpoint, that reaches the store with a call id that does not exist is
\* answered 404 and creates no record.
C10_MissingRecordNotFound ==
  [][\A r \in Slots :
       (/\ arg[r].op \in {"user_status", "staff_status"}
        /\ Returns(r)
        /\ ~Exists(calls, arg[r].id))
       => /\ resp'[r].code = 404
          /\ calls' = calls]_vars

\* The start-call in slot r returns in this step from its catch block, after
\* a store operation failed with a quota error.
StartCallQuotaReturn(r) ==
  /\ arg[r].op = "start"
  /\ Returns(r)
  /\ loc'[r].err = "quota"

\* C11: when a store operation of start-call fails with a quota error while
\* telephony is configured, the authenticated caller gets a success response
\* with degraded:true, queued:false, requestId null and a token for the
\* caller's own identity.
C11_QuotaDegradesToDirectToken ==
  [][\A r \in Slots :
       (StartCallQuotaReturn(r) /\ arg[r].twilio /\ arg[r].cred = "valid") =>
         /\ resp'[r].code = 200
         /\ resp'[r].degraded
         /\ ~resp'[r].queued
         /\ resp'[r].requestId = Null
         /\ resp'[r].token = createTwilioVoiceToken(IdentityOf(arg[r].user))]_vars

\* A start-call whose store failed with a quota error after the request had
\* created its record has been answered with the degraded response.
C11_Witness ==
  \E r \in Slots :
    /\ pc[r] = "done"
    /\ arg[r].op = "start"
    /\ loc[r].err = "quota"
    /\ loc[r].callRef # Null
    /\ resp[r].degraded

\* C12: a start-call that returns the degraded direct-connect response has
\* applied no write to the call store: no record was created or modified by
\* the request, whichever store step raised the quota error.
C12_DegradedBypassesStore ==
  [][\A r \in Slots :
       (arg[r].op = "start" /\ Returns(r) /\ resp'[r].degraded) =>
         (~loc'[r].wrote /\ loc'[r].callRef = Null)]_vars

\* C13: when telephony is not configured, start-call by an authenticated user
\* fails with 503, returns no token and changes no call record.
C13_UnconfiguredIsUnavailable ==
  [][\A r \in Slots :
       (/\ pc[r] = "idle"
        /\ arg'[r].op = "start"
        /\ arg'[r].cred = "valid"
        /\ ~arg'[r].twilio)
       => /\ pc'[r] = "done"
          /\ resp'[r].code = 503
          /\ resp'[r].token = NoToken
          /\ calls' = calls]_vars

\* An authenticated start-call has been refused with 503 while the queue
\* holds an active record.
C13_Witness ==
  \E r \in Slots :
    /\ pc[r] = "done"
    /\ arg[r].op = "start"
    /\ arg[r].cred = "valid"
    /\ ~arg[r].twilio
    /\ resp[r].code = 503
    /\ ActiveIds(calls) # {}

\* C14: start-call, the user status update and the call read answer a request
\* whose bearer credential is missing or invalid with 401 and change no call
\* record.
C14_BadCredentialUnauthenticated ==
  [][\A r \in Slots :
       (/\ pc[r] = "idle"
        /\ arg'[r].op \in {"start", "user_status", "get_call"}
        /\ arg'[r].cred \in {"missing", "invalid"})
       => /\ pc'[r] = "done"
          /\ resp'[r].code = 401
          /\ calls' = calls]_vars

\* C15: when the store reports a quota failure during a status update,
\* through the user endpoint or the staff console endpoint, the caller gets an
\* Unavailable outcome (429 or 503), not 500, 404 or 403.
C15_StatusQuotaUnavailable ==
  [][\A r \in Slots :
       (/\ arg[r].op \in {"user_status", "staff_status"}
        /\ Returns(r)
        /\ loc'[r].err = "quota")
       => resp'[r].code \in {429, 503}]_vars

\* C16: with a healthy, initially empty store, when A, B and C run start-call
\* one after another, A is answered queued:false with queuePosition 1, B
\* queued:true with 2 and C queued:true with 3; when A's record has then been
\* set to completed, B's record has queuePosition 1 and status requested and
\* C's record has queuePosition 2.
C16_ThreeCallersInTurn ==
  [][\A r \in Slots :
       /\ (arg[r].op = "start" /\ Returns(r)) =>
            /\ resp'[r].code = 200
            /\ resp'[r].queuePosition = arg[r].user
            /\ resp'[r].queued = (arg[r].user > 1)
       /\ TerminalUpdateReturns(r) =>
            /\ \A id \in RecordOf(2) : /\ calls'[id].queuePosition = 1
                                       /\ calls'[id].status = "requested"
            /\ \A id \in RecordOf(3) : calls'[id].queuePosition = 2]_vars

\* C17: whenever no operation is in flight and an active record exists,
\* exactly one active record has queuePosition 1, and its status is requested,
\* ringing or in_progress.
C17_OneHeadWhenIdle ==
  (Quiescent /\ ActiveIds(calls) # {}) =>
    /\ Cardinality({i \in ActiveIds(calls) : calls[i].queuePosition = 1}) = 1
    /\ \A i \in ActiveIds(calls) :
         calls[i].queuePosition = 1 =>
           calls[i].status \in {"requested", "ringing", "in_progress"}

\* C18: in every reachable state a record whose status is completed, failed
\* or cancelled has queuePosition null.
C18_TerminalHasNoPosition ==
  \A i \in Ids :
    IsTerminal(calls, i) => calls[i].queuePosition = Null

\* C19: in every reachable state the status of every call record is one of
\* requested, queued, ringing, in_progress, completed, failed, cancelled,
\* missed, whatever status strings the two status endpoints are sent.
C19_StatusInDomain ==
  \A i \in Ids :
    Exists(calls, i) =>
      calls[i].status \in ACTIVE_CALL_STATUSES \cup TERMINAL_CALL_STATUSES

\* The edges of the status state machine.
StatusEdges ==
  {<<"queued", "requested">>, <<"requested", "ringing">>,
   <<"ringing", "in_progress">>,
   <<"in_progress", "completed">>, <<"in_progress", "failed">>}
  \cup ({"queued", "requested", "ringing"} \X {"cancelled", "missed"})

\* C20: every status change applied to a call record follows an edge of
\* queued -> requested -> ringing -> in_progress -> {completed, failed}, with
\* cancelled and missed reachable only from queued, requested or ringing.
C20_StatusFollowsEdges ==
  [][\A i \in Ids :
       (Exists(calls, i) /\ calls'[i].status # calls[i].status) =>
         <<calls[i].status, calls'[i].status>> \in StatusEdges]_vars

\* C21: once a call record exists, no step of an admission, a status update
\* or a rebalance changes its id, userId, identity, handoff or createdAt.
C21_IdentityFieldsFrozen ==
  [][\A i \in Ids :
       Exists(calls, i) =>
         /\ calls'[i].id = calls[i].id
         /\ calls'[i].userId = calls[i].userId
         /\ calls'[i].identity = calls[i].identity
         /\ calls'[i].handoff = calls[i].handoff
         /\ calls'[i].createdAt = calls[i].createdAt]_vars

\* A record with a handoff has been written by a user status update, by a
\* staff status update and by a rebalance commit.
C21_Witness ==
  \E i \in Ids :
    /\ Exists(calls, i)
    /\ calls[i].handoff.userMessage = MaxUserMessage
    /\ calls[i].startedAt # Null
    /\ calls[i].status = "completed"
    /\ \E r \in Slots : /\ arg[r].op = "staff_status" /\ arg[r].id = i
                         /\ loc[r].wrote /\ pc[r] = "done"

\* The presence read on slot r answers from the store.
PresenceReturns(r) ==
  /\ arg[r].op = "presence"
  /\ pc[r] = "pp_count" /\ pc'[r] = "done"
  /\ resp'[r].code = 200 /\ ~resp'[r].degraded

\* Milliseconds between the heartbeat a presence read found and that read.
ElapsedMillis(r) == (loc[r].readAt - loc[r].beat) * MillisPerStep

\* C22: a presence read answered from the store reports online exactly when
\* a heartbeat has been recorded and less than 45 seconds have passed since
\* the last one (online 40 s after it, offline 50 s after it, offline
\* without any heartbeat).
C22_OnlineWithinWindow ==
  [][\A r \in Slots :
       PresenceReturns(r) =>
         (resp'[r].presence.online <=>
            (loc[r].beat # Null /\ ElapsedMillis(r) < 45 * 1000))]_vars

\* A presence read 50 seconds after the last heartbeat has reported offline.
C22_Witness ==
  \E r \in Slots :
    /\ arg[r].op = "presence" /\ pc[r] = "done"
    /\ resp[r].code = 200 /\ ~resp[r].degraded
    /\ loc[r].beat # Null /\ ElapsedMillis(r) = 50 * 1000
    /\ ~resp[r].presence.online

\* C23: a presence read answered from the store returns activeCalls equal to
\* the number of records with an active status, and estimatedWaitMinutes 0
\* for zero or one active call and 6 more for each further one.
C23_WaitEstimate ==
  [][\A r \in Slots :
       PresenceReturns(r) =>
         LET n == Cardinality({i \in Ids : IsActive(calls, i)})
             p == resp'[r].presence
         IN /\ p.activeCalls = n
            /\ n <= 1 => p.estimatedWaitMinutes = 0
            /\ n >= 2 => p.estimatedWaitMinutes = 6 * (n - 1)]_vars

\* A presence read with three active calls has answered 12 minutes.
C23_Witness ==
  \E r \in Slots :
    /\ arg[r].op = "presence" /\ pc[r] = "done"
    /\ resp[r].code = 200 /\ ~resp[r].degraded
    /\ resp[r].presence.activeCalls = 3
    /\ resp[r].presence.estimatedWaitMinutes = 12

\* A run of rebalanceCallQueue on slot r returns without an error.
RebalanceReturns(r) ==
  /\ arg[r].op = "rebalance"
  /\ pc[r] \in {"rebalance_read", "rebalance_commit"} /\ pc'[r] = "done"
  /\ loc'[r].err = "none"

\* C25: from any store state, one uninterrupted run of rebalanceCallQueue
\* leaves the active records with the positions 1..n in ascending createdAt
\* order, turns the first record's status from queued into requested and
\* changes no other record's status.
C25_RebalanceRenumbers ==
  [][\A r \in Slots :
       RebalanceReturns(r) =>
         LET A == {i \in Ids : IsActive(calls, i)}
         IN /\ {calls'[i].queuePosition : i \in A} = 1..Cardinality(A)
            /\ \A i, j \in A :
                 calls[i].createdAt < calls[j].createdAt =>
                   calls'[i].queuePosition < calls'[j].queuePosition
            /\ \A i \in Ids :
                 calls'[i].status =
                   IF i \in A /\ calls'[i].queuePosition = 1
                        /\ calls[i].status = "queued"
                   THEN "requested" ELSE calls[i].status]_vars

\* C26: from any store state, a run of rebalanceCallQueue that follows
\* another run with no write in between commits no batch and changes no
\* record (no updatedAt changes).
C26_SecondRunWritesNothing ==
  [][\A r \in Slots :
       (arg[r].op = "rebalance" /\ served >= 2 /\ pc[r] = "rebalance_read"
          /\ pc'[r] # "rebalance_read") =>
         (pc'[r] = "done" /\ calls' = calls)]_vars

\* A second run has returned after a first run that committed a batch.
C26_Witness ==
  /\ served = 2 /\ pc[1] = "done" /\ arg[1].op = "rebalance"
  /\ loc[1].err = "none" /\ ~loc[1].wrote
  /\ \E i \in Ids : IsActive(calls, i) /\ calls[i].updatedAt # calls[i].createdAt

\* C27: the changes computed by one run of rebalanceCallQueue are applied all
\* together in one step or not at all: every step that changes the store
\* applies every update of the run's batch, and a failed commit changes
\* nothing.
C27_BatchAllOrNothing ==
  [][\A r \in Slots :
       pc[r] = "rebalance_commit" =>
         \/ calls' = calls
         \/ /\ loc'[r].err = "none"
            /\ \A k \in 1..Len(loc[r].batch) :
                 LET u == loc[r].batch[k]
                 IN /\ u.setPosition =>
                         calls'[u.id].queuePosition = u.queuePosition
                    /\ u.setStatus => calls'[u.id].status = "requested"]_vars

\* A batch that changes two records has been committed.
C27_Witness ==
  \E r \in Slots :
    /\ arg[r].op = "rebalance" /\ pc[r] = "done" /\ loc[r].wrote
    /\ Cardinality({i \in Ids : Exists(calls, i)
                       /\ calls[i].updatedAt # calls[i].createdAt}) >= 2

\* C28: once a record has a startedAt value, no later status update to
\* in_progress, from the user endpoint or from the staff console endpoint,
\* changes it.
C28_StartedAtStampedOnce ==
  [][\A i \in Ids :
       (Exists(calls, i) /\ calls[i].startedAt # Null) =>
         calls'[i].startedAt = calls[i].startedAt]_vars

\* The write of an accepted status update to in_progress is applied on slot r.
InProgressWrite(r) ==
  /\ arg[r].op \in {"user_status", "staff_status"}
  /\ arg[r].status = "in_progress"
  /\ pc[r] \in {"us_update", "ss_update"}
  /\ loc'[r].wrote

\* C29: the write of an accepted status update to in_progress sets the
\* record's queuePosition to 1, whichever endpoint received the update.
C29_InProgressTakesHead ==
  [][\A r \in Slots :
       InProgressWrite(r) => calls'[arg[r].id].queuePosition = 1]_vars

\* C30: when start-call returns after creating a record, the record has
\* status requested if it is at queue position 1 and status queued if it is
\* at a later position, also when admissions interleave.
C30_InitialStatusByPosition ==
  [][\A r \in Slots :
       (arg[r].op = "start" /\ pc[r] = "sc_get" /\ pc'[r] = "done") =>
         LET d == calls[loc[r].callRef]
         IN /\ d.queuePosition = 1 => d.status = "requested"
            /\ d.queuePosition > 1 => d.status = "queued"]_vars

\* The leg's end event fires in this step, for a leg that carries a requestId.
LegEnds ==
  /\ console.requestId # Null
  /\ console'.leg # console.leg
  /\ console'.event \in {"disconnect", "cancel", "reject", "error"}

\* The terminal status the end event of a leg stands for.
EndStatus ==
  IF console'.event = "disconnect"
  THEN (IF console.wasConnected THEN "completed" ELSE "missed")
  ELSE IF console'.event = "error" THEN "failed" ELSE "missed"

\* The leg is over and every notification sent for it has been handled.
LegSettled ==
  /\ console.requestId # Null
  /\ console.leg \in {"ended", "errored"}
  /\ console.posts = <<>>
  /\ \A r \in Slots : pc[r] \in {"idle", "done"}

\* C24: for a telephony leg that carries a requestId, the end of the leg
\* posts a terminal status for that request (completed for a disconnect after
\* an accept, missed for a disconnect without one, for a cancel and for a
\* reject, failed for an error), and once the notifications are handled the
\* request's record has a terminal status.
C24_LegEndReflected ==
  [][/\ LegEnds =>
          /\ Len(console'.posts) > Len(console.posts)
          /\ \A k \in (Len(console.posts) + 1)..Len(console'.posts) :
               console'.posts[k] =
                 [id |-> console.requestId, status |-> EndStatus]
     /\ LegSettled' => IsTerminal(calls', console'.requestId)]_vars

\* A rebalance in slot r reads the active set.
RebalanceReads(r) == pc[r] = "rebalance_read" /\ StepOf(r)

\* C31: when two active records have equal createdAt timestamps, every
\* rebalance ranks the one inserted into the store first ahead of the other
\* (the callers insert their records in the order 1, 2, 3).
C31_TiesInArrivalOrder ==
  [][\A r \in Slots :
       RebalanceReads(r) =>
         \A i, j \in ActiveIds(calls) :
           (/\ calls[i].createdAt = calls[j].createdAt
            /\ calls[i].userId < calls[j].userId)
             => RankOf(calls, i) < RankOf(calls, j)]_vars

\* The record a request in slot r writes: the one it names or creates.
TargetOf(r) == IF arg[r].op = "start" THEN loc[r].callRef ELSE arg[r].id

\* C32: the queue is first-in-first-out with no overtaking: with one request
\* at a time, the queuePosition of an active record never increases from
\* before a request to after it while the record stays active.  Between the
\* arrival of a request and its return only the rebalance commit changes the
\* queuePosition of a record the request does not target.
C32_NoOvertaking ==
  [][\A r \in Slots :
       (pc[r] = "rebalance_commit" /\ StepOf(r)) =>
         \A i \in ActiveIds(calls) \cap ActiveIds(calls') :
           (i # TargetOf(r) /\ calls[i].queuePosition # Null)
             => calls'[i].queuePosition <= calls[i].queuePosition]_vars

\* A rebalance in slot r commits its batch.
RebalanceCommits(r) == pc[r] = "rebalance_commit" /\ StepOf(r)

\* C33: a rebalance never re-activates a finished call: the batch commit of a
\* rebalance leaves the status of a record that is terminal when the commit
\* happens (made terminal since the rebalance read the active set) as it is,
\* and does not give the record a queuePosition.
C33_CommitSparesTerminal ==
  [][\A r \in Slots :
       RebalanceCommits(r) =>
         \A i \in Ids :
           IsTerminal(calls, i) =>
             /\ calls'[i].status = calls[i].status
             /\ calls'[i].queuePosition = calls[i].queuePosition]_vars

\* C34: whenever no operation is in flight, every active record with
\* queuePosition greater than 1 has status queued.
C34_OnlyHeadLeavesQueued ==
  Quiescent =>
    \A i \in ActiveIds(calls) :
      calls[i].queuePosition > 1 => calls[i].status = "queued"

\* C35: single-slot admission: in every reachable state at most one call
\* record has status in_progress.
C35_OneInProgress ==
  Cardinality({i \in Ids : calls[i].status = "in_progress"}) <= 1

\* A status update in slot r returns an error to its caller.
StatusUpdateFails(r) ==
  /\ arg[r].op \in {"user_status", "staff_status"}
  /\ Returns(r)
  /\ resp'[r].code >= 400

\* C37: a status update that returns an error has changed nothing: with one
\* request at a time, when the handler's record write was applied and the
\* request then failed, the record's queuePosition is the one it held before
\* the write.
C37_ErrorChangesNothing ==
  [][\A r \in Slots :
       (StatusUpdateFails(r) /\ loc[r].wrote) =>
         calls'[arg[r].id].queuePosition = loc[r].prior]_vars

\* C38: the notifications the staff console sends for one telephony leg are
\* applied to the call record in the order of the leg's events: once a leg
\* that was accepted and then disconnected is over and its notifications are
\* handled, the record's status is completed.
C38_NotificationsInEventOrder ==
  (/\ LegSettled
   /\ console.wasConnected
   /\ console.event = "disconnect")
    => calls[console.requestId].status = "completed"

\* The outgoing callback legs of the staff console: the device.connect calls
\* waiting for their connection and the wired outgoing call.
OutgoingLegs ==
  Len(console.dials)
    + (IF console.direction = "outgoing"
          /\ console.leg \in {"pending", "accepted", "errored"}
       THEN 1 ELSE 0)

\* C39: the staff console never has two outgoing callback legs at once:
\* startCallbackCall places a call only when no voice call is active,
\* incoming or already being dialled.
C39_OneCallbackLeg == OutgoingLegs <= 1

\* C40: during an active call, after any sequence of Mute and Hold presses,
\* the call's audio is muted exactly when state.isMuted or state.isOnHold is
\* true.
C40_AudioFollowsMuteAndHold ==
  console.leg = "accepted" =>
    (console.audioMuted <=> (console.isMuted \/ console.isOnHold))

\* SpecLive: one request at a time; the callers 1..MaxCalls are admitted,
\* each once and in turn, and the record at queuePosition 1 receives terminal
\* status updates, from the staff console or from its owner, up to
\* MaxLiveRequests requests in all.  A store operation may reject.  Every
\* store operation completes and a handler that has started runs on to its
\* response: the steps of the request slot are weakly fair.  The arrival of
\* new requests is not.
IsHead(c, id) == IsActive(c, id) /\ c[id].queuePosition = 1

HandlerStep(r) ==
  \/ RebalanceStep(r, Frozen)
  \/ StartCallStep(r, Frozen)
  \/ StatusStep(r, Frozen)
  \/ Finish(r)

NextLive ==
  \/ \E u \in Callers :
       /\ served < MaxLiveRequests
       /\ ~HasCall(u)
       /\ \A v \in Callers : v < u => HasCall(v)
       /\ StartCall(1, u)
  \/ \E id \in Ids :
       /\ served < MaxLiveRequests
       /\ IsHead(calls, id)
       /\ \/ StaffStatus(1, id, "completed")
          \/ UserStatus(1, calls[id].userId, id, "cancelled")
  \/ HandlerStep(1)
  \/ FaultStep(1)

SpecLive == Init /\ [][NextLive]_vars /\ WF_vars(HandlerStep(1))

\* Every record that reaches queuePosition 1 eventually becomes terminal.
HeadsAreTerminated ==
  \A i \in Ids : IsHead(calls, i) ~> IsTerminal(calls, i)

\* C36: under weak fairness of the store and of the handlers, and assuming
\* every record that reaches position 1 eventually receives a terminal status
\* update, every active record eventually reaches queuePosition 1 with a
\* non-queued status, unless it becomes terminal before it does: no admitted
\* request waits in the queue forever.
C36_NoRequestWaitsForever ==
  HeadsAreTerminated =>
    \A i \in Ids :
      IsActive(calls, i) ~>
        \/ calls[i].queuePosition = 1 /\ calls[i].status # "queued"
        \/ IsTerminal(calls, i)

====
